---- MODULE Spec2Model ----
(***************************************************************************)
(* State-machine model of the I3D exporter: scene traversal                *)
(* (exporter.py), armature / bone nodes (skinned_mesh.py) and animation    *)
(* export (animation.py).  The recursion of _add_object_to_i3d is unrolled *)
(* on an explicit call stack; one step of the machine is one call.         *)
(***************************************************************************)
EXTENDS Integers, Sequences, FiniteSets, TLC

\* ------------------------------------------------------------- bounds ---
NObj == 3
NBone == 2
NColl == 2
MaxFrame == 3

VARIABLES
    scene,          \* the Blender data the exporter reads (objects, collections, bones, actions)
    settings,       \* i3d.settings
    operator,       \* the export operator (selection mode, collection, log_to_file)
    i3d,            \* the I3D session object
    stack,          \* pending calls of _export / _add_object_to_i3d, innermost first
    pc,             \* position inside export_blend_to_i3d
    export_data,    \* the dict returned by export_blend_to_i3d
    hide_viewport,  \* obj.hide_viewport of every object
    frame_current,  \* scene.frame_current
    anim,           \* progress of Animation.__init__ / _export
    output          \* what has been written: deferred shapes, the file, the binary, reports, the log handler

vars == <<scene, settings, operator, i3d, stack, pc, export_data, hide_viewport, frame_current,
          anim, output>>

Obj == 1..NObj
Bone == 1..NBone
Coll == 0..NColl            \* 0 is the scene's master collection
None == 0                   \* Python None for object / node references
Detached == -1              \* an XML element that was appended to no parent element

ObjEnt(o) == [k |-> "OBJ", i |-> o]
ColEnt(c) == [k |-> "COL", i |-> c]
BoneEnt(b) == [k |-> "BONE", i |-> b]

\* ------------------------------------------------- reading the scene ---
ObjChildren(o) == {c \in Obj : scene.oparent[c] = o}
CollChildren(c) == {d \in Coll \ {0} : scene.cparent[d] = c}
CollObjects(c) == {o \in Obj : scene.ocoll[o] = c}
BoneChildren(b) == {c \in Bone : scene.bone_parent[c] = b}

RECURSIVE ObjDescendants(_)
ObjDescendants(o) ==
    {o} \cup UNION {ObjDescendants(c) : c \in ObjChildren(o)}

RECURSIVE CollDescendants(_)
CollDescendants(c) ==
    {c} \cup UNION {CollDescendants(d) : d \in CollChildren(c)}

RECURSIVE ObjAncestors(_)
ObjAncestors(o) ==
    IF scene.oparent[o] = None THEN {}
    ELSE {scene.oparent[o]} \cup ObjAncestors(scene.oparent[o])

\* traverse_hierarchy: the object and everything below it, as entities.
traverse_hierarchy(e) ==
    IF e.k = "OBJ" THEN {ObjEnt(o) : o \in ObjDescendants(e.i)}
    ELSE {ColEnt(c) : c \in CollDescendants(e.i)}

\* The sort key of sort_blender_objects_by_outliner_ordering: the rank of the
\* object's name in the natural (digit-aware, case-insensitive) order.
NameKey(e) == IF e.k = "OBJ" THEN scene.oname[e.i] ELSE e.i

RECURSIVE sort_blender_objects_by_outliner_ordering(_)
sort_blender_objects_by_outliner_ordering(S) ==
    IF S = {} THEN <<>>
    ELSE LET m == CHOOSE x \in S : \A y \in S : NameKey(x) <= NameKey(y)
         IN <<m>> \o sort_blender_objects_by_outliner_ordering(S \ {m})

\* Collection.children.values(): child collections in their stored order.
RECURSIVE InStoredOrder(_)
InStoredOrder(S) ==
    IF S = {} THEN <<>>
    ELSE LET m == CHOOSE x \in S : \A y \in S : x.i <= y.i
         IN <<m>> \o InStoredOrder(S \ {m})

SeqToSet(s) == {s[n] : n \in 1..Len(s)}

\* --------------------------------------------------- the scene graph ---
\* A SceneGraphNode.  parent / children are the Python-side links, elem_parent
\* is the node whose XML element holds this node's element (None: the Scene
\* element itself, Detached: appended nowhere).
BlankNode(cls, ent) ==
    [cls |-> cls, ent |-> ent, parent |-> None, children |-> <<>>,
     elem_parent |-> Detached, is_collapsed |-> FALSE, is_child_of |-> FALSE,
     deferred_target |-> None, defer_transform |-> FALSE, root_node |-> None,
     bones |-> <<>>, transform |-> <<>>, transform_case |-> 0, n_finalize |-> 0,
     moved_after_finalize |-> FALSE, parenting_finalized |-> FALSE]

RemoveFromSeq(s, x) == SelectSeq(s, LAMBDA y : y # x)

add_child(i, p, c) == [i EXCEPT !.nodes[p].children = Append(@, c)]

remove_child(i, p, c) == [i EXCEPT !.nodes[p].children = RemoveFromSeq(@, c)]

\* SceneGraphNode.__init__: the node takes the next id, remembers its parent and
\* is appended to the parent's children and to the parent's XML element.
SceneGraphNodeInit(i, cls, ent, parent) ==
    LET id == Len(i.nodes) + 1
        n  == [BlankNode(cls, ent) EXCEPT !.parent = parent, !.elem_parent = parent]
        i1 == [i EXCEPT !.nodes = Append(@, n)]
    IN IF parent # None THEN add_child(i1, parent, id) ELSE i1

\* I3D._add_node: the finished node is recorded in processed_objects.
Register(i, ent, id) ==
    [i EXCEPT !.processed_objects =
        [e \in (DOMAIN @) \cup {ent} |-> IF e = ent THEN id ELSE @[e]]]

\* -------------------------------------------------------- matrices ---
\* Transform matrices are the 3x3 permutation matrices, each written as the
\* permutation of the axes it performs: a non-commutative family that is closed
\* under product and has exact inverses.
Identity == <<1, 2, 3>>

MatMul(a, b) == [k \in 1..3 |-> a[b[k]]]

inverted_safe(m) == [k \in 1..3 |-> CHOOSE j \in 1..3 : m[j] = k]

\* The basis conversion of the session (Blender's Z-up to Y-up: Y and Z swap).
conversion_matrix == <<1, 3, 2>>

\* I3D.to_i3d: Conv * m * Conv^-1.
to_i3d(m) == MatMul(MatMul(conversion_matrix, m), inverted_safe(conversion_matrix))

\* I3D.to_i3d_forward: Conv * m, without the inverse.
to_i3d_forward(m) == MatMul(conversion_matrix, m)

\* obj.matrix_local: the object's world matrix relative to its parent's.
ObjMatrixLocal(o) ==
    IF scene.oparent[o] = None THEN scene.matrix_world[o]
    ELSE MatMul(inverted_safe(scene.matrix_world[scene.oparent[o]]), scene.matrix_world[o])

\* The transform of an ordinary node: its object's local matrix, converted
\* (a collection has no matrix of its own).
TransformGroupTransform(i, n) ==
    LET e == i.nodes[n].ent
    IN IF e.k = "OBJ" THEN to_i3d(ObjMatrixLocal(e.i)) ELSE Identity

\* SkinnedMeshBoneNode._get_child_of_transform.
_get_child_of_transform(i, n, bone_in_armature_space) ==
    LET self == i.nodes[n]
        target_object == IF self.deferred_target # None THEN self.deferred_target
                         ELSE i.nodes[self.parent].ent.i
        target_world_matrix   == to_i3d(scene.matrix_world[target_object])
        armature_world_matrix == to_i3d(scene.matrix_world[i.nodes[self.root_node].ent.i])
    IN MatMul(MatMul(inverted_safe(target_world_matrix), armature_world_matrix),
              bone_in_armature_space)

\* SkinnedMeshBoneNode._transform_for_conversion: the four cases, in the order
\* of the code.  (In case 3 the parent is an object's node or the scene root.)
_transform_for_conversion(i, n) ==
    LET self   == i.nodes[n]
        parent == self.parent
        bone_in_armature_space == to_i3d_forward(scene.matrix_local[self.ent.i])
    IN IF parent # None /\ i.nodes[parent].cls = "SkinnedMeshBoneNode"
       THEN MatMul(inverted_safe(scene.matrix_local[i.nodes[parent].ent.i]),
                   scene.matrix_local[self.ent.i])
       ELSE IF self.is_child_of \/ self.deferred_target # None
       THEN _get_child_of_transform(i, n, bone_in_armature_space)
       ELSE IF i.nodes[self.root_node].is_collapsed
       THEN LET parent_world ==
                    IF parent # None /\ i.nodes[parent].ent.k = "OBJ"
                    THEN to_i3d(scene.matrix_world[i.nodes[parent].ent.i])
                    ELSE Identity
                armature_world == to_i3d(scene.matrix_world[i.nodes[self.root_node].ent.i])
            IN MatMul(MatMul(inverted_safe(parent_world), armature_world),
                      bone_in_armature_space)
       ELSE bone_in_armature_space

\* The case of _transform_for_conversion that applies to the bone node n as it
\* stands: 1 bone parent, 2 child-of, 3 collapsed armature, 4 default.
TransformCase(i, n) ==
    LET self   == i.nodes[n]
        parent == self.parent
    IN IF parent # None /\ i.nodes[parent].cls = "SkinnedMeshBoneNode" THEN 1
       ELSE IF self.is_child_of \/ self.deferred_target # None THEN 2
       ELSE IF i.nodes[self.root_node].is_collapsed THEN 3
       ELSE 4

\* SceneGraphNode.finalize_transform: computes and writes the node's transform
\* (transform_case remembers which case of the bone computation wrote it).
finalize_transform(i, n) ==
    [i EXCEPT !.nodes[n].n_finalize = @ + 1,
              !.nodes[n].transform_case =
                    IF i.nodes[n].cls = "SkinnedMeshBoneNode" THEN TransformCase(i, n) ELSE @,
              !.nodes[n].transform =
                    IF i.nodes[n].cls = "SkinnedMeshBoneNode"
                    THEN _transform_for_conversion(i, n)
                    ELSE TransformGroupTransform(i, n)]

\* A node whose transform is not deferred gets it when it is created.
FinalizeUnlessDeferred(i, n) ==
    IF i.nodes[n].defer_transform THEN i ELSE finalize_transform(i, n)

\* SceneGraphNode.reparent: leaves the old parent's children, joins the new
\* parent's children (or the scene root) and moves its XML element along.
reparent(i, n, new_parent) ==
    LET old == i.nodes[n].parent
        i1  == IF old # None THEN remove_child(i, old, n) ELSE i
        i2  == [i1 EXCEPT !.nodes[n].parent = new_parent,
                          !.nodes[n].elem_parent = new_parent,
                          !.nodes[n].moved_after_finalize = @ \/ i1.nodes[n].n_finalize > 0]
    IN IF new_parent # None THEN add_child(i2, new_parent, n) ELSE i2

Warn(i, w, e) == [i EXCEPT !.warnings = @ \cup {[w |-> w, ent |-> e]}]

\* I3D._add_node: a node whose object is animated is linked to the object's
\* action in anim_links (together with the object's action slot).
LinkAnimation(i, ent, id) ==
    IF ent.k # "OBJ" \/ scene.oaction[ent.i] = None THEN i
    ELSE LET a == scene.oaction[ent.i]
             known == \E n \in 1..Len(i.anim_links) : i.anim_links[n].action = a
         IN IF known
            THEN [i EXCEPT !.anim_links =
                    [n \in 1..Len(@) |->
                        IF @[n].action = a
                        THEN [@[n] EXCEPT !.pairs = Append(@, id)] ELSE @[n]]]
            ELSE [i EXCEPT !.anim_links = Append(@, [action |-> a, pairs |-> <<id>>])]

\* I3D.add_*_node for the node classes without a constructor of their own here.
AddPlainNode(i, cls, ent, parent) ==
    LET id == Len(i.nodes) + 1
    IN LinkAnimation(
           FinalizeUnlessDeferred(
               Register(SceneGraphNodeInit(i, cls, ent, parent), ent, id), id),
           ent, id)

\* I3D.add_merge_children_node / add_merge_group_node: the shape is queued in
\* deferred_shapes_to_populate, its mesh data is written after the traversal.
AddDeferredShapeNode(i, cls, ent, parent) ==
    LET id == Len(i.nodes) + 1
    IN [AddPlainNode(i, cls, ent, parent) EXCEPT
            !.deferred_shapes_to_populate = Append(@, id)]

\* ------------------------------------------------ skinned_mesh.py ---
\* SkinnedMeshBoneNode.__init__ for bone b of the armature node `root`.
SkinnedMeshBoneNodeInit(i, b, parent, root) ==
    LET id       == Len(i.nodes) + 1
        target   == scene.child_of[b]
        child_of == target # None /\ ObjEnt(target) \in i.all_objects_to_export
        resolved == child_of /\ ObjEnt(target) \in DOMAIN i.processed_objects
        deferred == child_of /\ ~resolved
        par      == IF resolved THEN i.processed_objects[ObjEnt(target)] ELSE parent
        i1       == IF deferred
                    THEN [i EXCEPT !.deferred_constraints = Append(@, <<id, target>>)]
                    ELSE i
        i2       == SceneGraphNodeInit(i1, "SkinnedMeshBoneNode", BoneEnt(b), par)
        is_child_bone        == par # None /\ i2.nodes[par].cls = "SkinnedMeshBoneNode"
        has_resolved_childof == child_of /\ ~deferred
    IN [i2 EXCEPT !.nodes[id].is_child_of = child_of,
                  !.nodes[id].root_node = root,
                  !.nodes[id].deferred_target = IF deferred THEN target ELSE None,
                  !.nodes[id].defer_transform =
                        deferred \/ (i2.nodes[root].is_collapsed /\ ~is_child_bone
                                     /\ ~has_resolved_childof)]

\* I3D.add_bone: builds the bone node and records it in processed_objects.
add_bone(i, b, parent, root) ==
    LET id == Len(i.nodes) + 1
    IN FinalizeUnlessDeferred(
           Register(SkinnedMeshBoneNodeInit(i, b, parent, root), BoneEnt(b), id), id)

\* Bones in the order of armature.data.bones / bone.children.
BoneOrder(S) == InStoredOrder({BoneEnt(b) : b \in S})

\* SkinnedMeshRootNode._add_bone, applied to a list of sibling bones: each bone
\* is added, then its child bones below it, before the next sibling.
RECURSIVE _add_bone(_, _, _, _)
_add_bone(i, bs, parent, root) ==
    IF bs = <<>> THEN i
    ELSE LET b  == bs[1].i
             id == Len(i.nodes) + 1
             i1 == add_bone(i, b, parent, root)
             i2 == [i1 EXCEPT !.nodes[root].bones = Append(@, id)]
             i3 == _add_bone(i2, BoneOrder(BoneChildren(b)), id, root)
         IN _add_bone(i3, Tail(bs), parent, root)

\* SkinnedMeshRootNode.__init__ keeping the Python-side parent of a collapsed
\* armature without joining the parent's children.
SkinnedMeshRootNodeInit_NoAddChild(i, a, parent) ==
    LET id           == Len(i.nodes) + 1
        is_collapsed == scene.collapse[a]
        xml_parent   == IF is_collapsed THEN None ELSE parent
        i1 == SceneGraphNodeInit(i, "SkinnedMeshRootNode", ObjEnt(a), xml_parent)
        i2 == [i1 EXCEPT !.nodes[id].is_collapsed = is_collapsed,
                         !.nodes[id].defer_transform = TRUE,
                         !.nodes[id].elem_parent = IF is_collapsed THEN Detached ELSE @,
                         !.nodes[id].parent = parent]
    IN _add_bone(i2, BoneOrder({b \in Bone : scene.bone_parent[b] = None}), id, id)

\* SkinnedMeshRootNode.__init__.
SkinnedMeshRootNodeInit(i, a, parent) ==
    LET id           == Len(i.nodes) + 1
        is_collapsed == scene.collapse[a]
        xml_parent   == IF is_collapsed THEN None ELSE parent
        i1 == SceneGraphNodeInit(i, "SkinnedMeshRootNode", ObjEnt(a), xml_parent)
        i2 == [i1 EXCEPT !.nodes[id].is_collapsed = is_collapsed,
                         !.nodes[id].defer_transform = TRUE,
                         !.nodes[id].elem_parent = IF is_collapsed THEN Detached ELSE @]
        i3 == IF is_collapsed /\ parent # None
              THEN add_child([i2 EXCEPT !.nodes[id].parent = parent], parent, id)
              ELSE i2
    IN _add_bone(i3, BoneOrder({b \in Bone : scene.bone_parent[b] = None}), id, id)

\* SkinnedMeshRootNode.finalize_armature_parenting.
RECURSIVE FinalizeCollapsedBones(_, _, _, _)
FinalizeCollapsedBones(i, bs, self, final_parent) ==
    IF bs = <<>> THEN i
    ELSE LET bn == bs[1]
             i1 == IF i.nodes[bn].parent = self /\ ~i.nodes[bn].is_child_of
                   THEN finalize_transform(reparent(i, bn, final_parent), bn)
                   ELSE i
         IN FinalizeCollapsedBones(i1, Tail(bs), self, final_parent)

RECURSIVE FinalizeAllBones(_, _)
FinalizeAllBones(i, bs) ==
    IF bs = <<>> THEN i
    ELSE FinalizeAllBones(finalize_transform(i, bs[1]), Tail(bs))

\* finalize_armature_parenting without its loops: the armature is marked as
\* met by the traversal, no node is moved and no transform is written.
finalize_armature_parenting_Unmoved(i, self, final_parent) ==
    [i EXCEPT !.nodes[self].parenting_finalized = TRUE]

finalize_armature_parenting(i, self, final_parent) ==
    LET i0 == [i EXCEPT !.nodes[self].parenting_finalized = TRUE]
    IN IF i0.nodes[self].is_collapsed
       THEN FinalizeCollapsedBones(i0, i0.nodes[self].bones, self, final_parent)
       ELSE FinalizeAllBones(finalize_transform(reparent(i0, self, final_parent), self),
                             i0.nodes[self].bones)

\* I3D.add_armature_from_modifier: the armature node is built on first use,
\* without a parent, and reused afterwards.
add_armature_from_modifier(i, a) ==
    IF ObjEnt(a) \in DOMAIN i.processed_objects THEN i
    ELSE LinkAnimation(
             Register(SkinnedMeshRootNodeInit(i, a, None), ObjEnt(a), Len(i.nodes) + 1),
             ObjEnt(a), Len(i.nodes) + 1)

\* I3D.add_armature_from_scene: the armature met by the scene traversal; it is
\* built now unless a modifier built it already, and its parenting is finalized.
add_armature_from_scene(i, a, parent) ==
    LET known == ObjEnt(a) \in DOMAIN i.processed_objects
        id    == IF known THEN i.processed_objects[ObjEnt(a)] ELSE Len(i.nodes) + 1
        i1    == IF known THEN i
                 ELSE LinkAnimation(
                          Register(SkinnedMeshRootNodeInit(i, a, parent), ObjEnt(a), id),
                          ObjEnt(a), id)
    IN finalize_armature_parenting(i1, id, parent)

\* ------------------------------------------------------ exporter.py ---
AddFrame(e, parent) == [op |-> "add", ent |-> e, parent |-> parent, ents |-> {}, sort |-> FALSE]

ExportFrame(S, sorted) == [op |-> "export", ent |-> ColEnt(0), parent |-> None, ents |-> S, sort |-> sorted]

AddFrames(es, parent) == [n \in 1..Len(es) |-> AddFrame(es[n], parent)]

\* What one call of _add_object_to_i3d leaves behind: the session, the calls it
\* makes next (in order) and whether it raised.
Outcome(i, calls, raised) == [i |-> i, calls |-> calls, raised |-> raised]

\* SkinnedMeshShapeNode.__init__ via I3D.add_skinned_mesh_node: the armature of
\* every armature modifier that has an object is built first.
add_skinned_mesh_node(i, o, parent) ==
    LET a  == scene.armature_mod[o]
        i1 == IF a > None THEN add_armature_from_modifier(i, a) ELSE i
    IN AddPlainNode(i1, "SkinnedMeshShapeNode", ObjEnt(o), parent)

\* _process_collection_objects
_process_collection_objects(i, c, parent) ==
    LET all == UNION {traverse_hierarchy(ObjEnt(o)) : o \in CollObjects(c)}
        i1  == [i EXCEPT !.all_objects_to_export = @ \cup all]
        colls == InStoredOrder({ColEnt(d) : d \in CollChildren(c)})
        objs  == sort_blender_objects_by_outliner_ordering(
                    {ObjEnt(o) : o \in {x \in CollObjects(c) : scene.oparent[x] = None}})
    IN Outcome(i1, AddFrames(colls, parent) \o AddFrames(objs, parent), FALSE)

\* The children loop at the end of _add_object_to_i3d.  node = Detached stands
\* for the local variable `node` that no branch has assigned: reading it raises.
ProcessChildren(i, o, node) ==
    LET children ==
            IF i.has_selection_set
            THEN {c \in i.selection_set : i.parent_map[c] = o}
            ELSE ObjChildren(o)
        calls == sort_blender_objects_by_outliner_ordering({ObjEnt(c) : c \in children})
    IN IF children # {} /\ node = Detached
       THEN Outcome(i, <<>>, TRUE)
       ELSE Outcome(i, AddFrames(calls, node), FALSE)

\* The 'MESH' case of _add_object_to_i3d.
AddMesh(i, o, parent) ==
    LET e == ObjEnt(o)
        a == scene.armature_mod[o]
    IN IF "MERGE_CHILDREN" \in settings.features_to_export /\ scene.merge_children[o]
       THEN IF \E c \in ObjChildren(o) : scene.otype[c] = "MESH"
            THEN Outcome(AddDeferredShapeNode(i, "MergeChildrenRoot", e, parent), <<>>, FALSE)
            ELSE ProcessChildren(Warn(i, "merge_children_no_meshes", e), o, Detached)
       ELSE IF "MERGE_GROUPS" \in settings.features_to_export /\ scene.merge_group_index[o] > -1
       THEN ProcessChildren(AddDeferredShapeNode(i, "MergeGroupNode", e, parent), o,
                            Len(i.nodes) + 1)
       ELSE IF /\ "SKINNED_MESHES" \in settings.features_to_export
               /\ "ARMATURE" \in settings.object_types_to_export
               /\ a # Detached
       THEN IF a = None
            THEN ProcessChildren(Warn(i, "armature_modifier_without_object", e), o, Detached)
            ELSE IF ObjEnt(a) \notin i.all_objects_to_export
            THEN ProcessChildren(Warn(i, "armature_not_in_export", e), o, Detached)
            ELSE LET i1 == add_skinned_mesh_node(i, o, parent)
                 IN ProcessChildren(i1, o, Len(i1.nodes))
       ELSE ProcessChildren(AddPlainNode(i, "ShapeNode", e, parent), o, Len(i.nodes) + 1)

\* _add_object_to_i3d
_add_object_to_i3d(i, e, parent) ==
    IF e.k = "COL"
    THEN IF settings.keep_collections_as_transformgroups
         THEN _process_collection_objects(
                  AddPlainNode(i, "TransformGroupNode", e, parent), e.i, Len(i.nodes) + 1)
         ELSE _process_collection_objects(i, e.i, None)
    ELSE LET o == e.i
             t == scene.otype[o]
             _parent == IF /\ parent # None
                           /\ i.nodes[parent].cls = "SkinnedMeshRootNode"
                           /\ i.nodes[parent].is_collapsed
                        THEN i.nodes[parent].parent
                        ELSE parent
         IN IF scene.exclude_from_export[o] THEN Outcome(i, <<>>, FALSE)
            ELSE IF t \notin settings.object_types_to_export THEN Outcome(i, <<>>, FALSE)
            ELSE IF t = "MESH" THEN AddMesh(i, o, _parent)
            ELSE IF t = "ARMATURE"
            THEN LET i1 == add_armature_from_scene(i, o, _parent)
                 IN ProcessChildren(i1, o, i1.processed_objects[e])
            ELSE IF t = "EMPTY"
            THEN LET i1 == AddPlainNode(i, "TransformGroupNode", e, _parent)
                 IN IF scene.instance_collection[o] # Detached
                    THEN _process_collection_objects(i1, scene.instance_collection[o],
                                                     Len(i.nodes) + 1)
                    ELSE ProcessChildren(i1, o, Len(i.nodes) + 1)
            ELSE IF t = "LIGHT"
            THEN ProcessChildren(AddPlainNode(i, "LightNode", e, _parent), o, Len(i.nodes) + 1)
            ELSE IF t = "CAMERA"
            THEN ProcessChildren(AddPlainNode(i, "CameraNode", e, _parent), o, Len(i.nodes) + 1)
            ELSE IF t = "CURVE"
            THEN ProcessChildren(AddPlainNode(i, "ShapeNode", e, _parent), o, Len(i.nodes) + 1)
            ELSE Outcome(i, <<>>, TRUE)

\* _export: the hierarchy below the given roots joins all_objects_to_export,
\* then every root is added in order.
_export(i, S, sorted) ==
    LET all   == UNION {traverse_hierarchy(e) : e \in S}
        calls == IF sorted THEN sort_blender_objects_by_outliner_ordering(S)
                 ELSE InStoredOrder(S)
    IN Outcome([i EXCEPT !.all_objects_to_export = @ \cup all], AddFrames(calls, None), FALSE)

\* _export_collection_content: child collections first (unsorted), then the
\* collection's root objects.
_export_collection_content(c) ==
    << ExportFrame({ColEnt(d) : d \in CollChildren(c)}, FALSE),
       ExportFrame({ObjEnt(o) : o \in {x \in CollObjects(c) : scene.oparent[x] = None}}, TRUE) >>

\* The parent walk of _export_selected_only: the nearest selected ancestor.
RECURSIVE NearestSelected(_, _)
NearestSelected(p, selection_set) ==
    IF p = None \/ p \in selection_set THEN p
    ELSE NearestSelected(scene.oparent[p], selection_set)

\* _export_selected_only
_export_selected_only(i, selected_objs) ==
    LET parent_map == [o \in selected_objs |-> NearestSelected(scene.oparent[o], selected_objs)]
        roots == {o \in selected_objs : parent_map[o] = None}
        i1 == [i EXCEPT !.all_objects_to_export = @ \cup {ObjEnt(o) : o \in selected_objs},
                        !.has_selection_set = TRUE,
                        !.selection_set = selected_objs,
                        !.parent_map = [o \in Obj |-> IF o \in selected_objs
                                                       THEN parent_map[o] ELSE Detached]]
    IN Outcome(i1,
               AddFrames(sort_blender_objects_by_outliner_ordering(
                             {ObjEnt(o) : o \in roots}), None),
               FALSE)

\* ------------------------------------------------------ the inputs ---
AllTypes == {"MESH", "ARMATURE", "EMPTY"}
AllFeatures == {"MERGE_CHILDREN", "MERGE_GROUPS", "SKINNED_MESHES"}

\* Parent links of a forest: objects are numbered so that a parent precedes
\* its children (Blender rules out parenting cycles).
Forests == {f \in [Obj -> 0..NObj] : \A o \in Obj : f[o] < o}

RECURSIVE RootOf(_, _)
RootOf(f, o) == IF f[o] = None THEN o ELSE RootOf(f, f[o])

NoAction == [frame_range |-> <<0, 0>>, fcurves |-> {}]

\* A scene of plain meshes in the master collection; the families below vary it.
BaseScene(f) ==
    [oname |-> [o \in Obj |-> o],
     otype |-> [o \in Obj |-> "MESH"],
     oparent |-> f,
     ocoll |-> [o \in Obj |-> 0],
     exclude_from_export |-> [o \in Obj |-> FALSE],
     collapse |-> [o \in Obj |-> FALSE],
     merge_children |-> [o \in Obj |-> FALSE],
     merge_group_index |-> [o \in Obj |-> -1],
     armature_mod |-> [o \in Obj |-> Detached],
     instance_collection |-> [o \in Obj |-> Detached],
     cparent |-> [c \in Coll \ {0} |-> Detached],
     bone_parent |-> [b \in Bone |-> None],
     child_of |-> [b \in Bone |-> None],
     matrix_world |-> [o \in Obj |-> Identity],
     matrix_local |-> [b \in Bone |-> Identity],
     pose_matrix |-> [b \in Bone |-> Identity],
     oaction |-> [o \in Obj |-> None],
     action |-> NoAction,
     fps |-> 1,
     selected_objects |-> {},
     active_object |-> None,
     active_collection |-> 0]

BaseSettings ==
    [keep_collections_as_transformgroups |-> FALSE,
     object_types_to_export |-> AllTypes,
     features_to_export |-> AllFeatures,
     selection_traverse_children |-> TRUE]

BaseOperator ==
    [selection |-> "ALL", collection |-> Detached, log_to_file |-> FALSE]

NewI3D ==
    [nodes |-> <<>>,
     processed_objects |-> << >>,
     all_objects_to_export |-> {},
     deferred_constraints |-> <<>>,
     deferred_shapes_to_populate |-> <<>>,
     anim_links |-> <<>>,
     has_selection_set |-> FALSE,
     selection_set |-> {},
     parent_map |-> [o \in Obj |-> Detached],
     warnings |-> {}]

\* Nothing is written yet.  previous is what the file of an earlier export of
\* the scene holds for each bone (empty when there was none).  log_handler is the file handler of lines 32-41:
\* "none" when log_to_file is off, else "attached" until it is removed.
NewOutput ==
    [shapes_populated |-> <<>>, file_written |-> FALSE,
     binarize_requested |-> FALSE, binarized |-> FALSE,
     animation_sets |-> [exists |-> FALSE, count |-> Detached],
     clip |-> [keyframes |-> <<>>, count |-> Detached],
     reports |-> {},
     previous |-> <<>>,
     log_handler |-> IF operator.log_to_file THEN "attached" ELSE "none"]

NoAnim == [running |-> FALSE, started |-> FALSE, tracks |-> <<>>,
           original_hide_state |-> << >>, frame_at_entry |-> 0,
           hide_at_entry |-> [o \in Obj |-> FALSE]]

InitRest ==
    /\ i3d = NewI3D
    /\ stack = <<>>
    /\ pc = "start"
    /\ export_data = [success |-> "unset", time |-> "unset"]
    /\ frame_current = 0
    /\ anim = NoAnim
    /\ output = NewOutput

\* Family 1: object hierarchies with one EMPTY, one excluded object, EMPTY in or
\* out of the exported types (or no type of the scene among them), in every
\* selection mode of the operator.
InitHierarchy ==
    \E f \in Forests, emp \in 0..NObj, exc \in 0..NObj,
       types \in {AllTypes, AllTypes \ {"EMPTY"}, {"ARMATURE"}},
       sel \in {"ALL", "ACTIVE_OBJECT", "SELECTED_OBJECTS"},
       S \in SUBSET Obj, trav \in BOOLEAN, act \in 0..NObj :
        /\ types = AllTypes => emp = 0
        /\ types = {"ARMATURE"} => emp = 0 /\ exc = 0 /\ sel = "ALL"
        /\ sel = "ALL" => S = {} /\ trav /\ act = 0
        /\ sel = "ACTIVE_OBJECT" => S = {} /\ trav
        /\ sel = "SELECTED_OBJECTS" => act = 0
        /\ scene = [BaseScene(f) EXCEPT
                        !.otype = [o \in Obj |-> IF o = emp THEN "EMPTY" ELSE "MESH"],
                        !.exclude_from_export = [o \in Obj |-> o = exc],
                        !.selected_objects = S,
                        !.active_object = act]
        /\ settings = [BaseSettings EXCEPT !.object_types_to_export = types,
                                           !.selection_traverse_children = trav]
        /\ operator = [BaseOperator EXCEPT !.selection = sel]
        /\ hide_viewport = [o \in Obj |-> FALSE]
        /\ InitRest

\* Collection trees: a collection is unlinked (used by instances only), a child
\* of the master collection or a child of the collection before it.
CollTrees == {g \in [Coll \ {0} -> Detached..NColl] :
                \A c \in Coll \ {0} : g[c] \in {Detached, 0, c - 1} /\ g[c] < c}

\* Family 2: objects spread over nested collections, object 1 possibly an EMPTY
\* that instances a collection, collections kept as transform groups or not,
\* with or without a log file.
InitCollections ==
    \E g \in CollTrees, last \in 0..(NObj - 1), oc \in [Obj -> Coll],
       inst \in {Detached} \cup (Coll \ {0}), keep \in BOOLEAN, log \in BOOLEAN,
       mode \in {"ALL", "ACTIVE_COLLECTION", "COLLECTION", "MISSING_COLLECTION"} :
        LET f == [o \in Obj |-> IF o = NObj THEN last ELSE None]
        IN /\ oc[1] = 0
           /\ \A o \in Obj : f[o] # None => oc[o] = oc[RootOf(f, o)]
           /\ scene = [BaseScene(f) EXCEPT
                          !.otype = [o \in Obj |-> IF o = 1 /\ inst # Detached
                                                   THEN "EMPTY" ELSE "MESH"],
                          !.ocoll = oc,
                          !.cparent = g,
                          !.instance_collection =
                                [o \in Obj |-> IF o = 1 THEN inst ELSE Detached],
                          !.active_collection = IF mode = "ACTIVE_COLLECTION" THEN 1 ELSE 0]
           /\ settings = [BaseSettings EXCEPT !.keep_collections_as_transformgroups = keep]
           /\ operator = [BaseOperator EXCEPT
                             !.selection = IF mode = "ACTIVE_COLLECTION"
                                           THEN "ACTIVE_COLLECTION" ELSE "ALL",
                             !.collection = IF mode = "COLLECTION" THEN 1
                                            ELSE IF mode = "MISSING_COLLECTION"
                                            THEN NColl + 1 ELSE Detached,
                             !.log_to_file = log]
           /\ hide_viewport = [o \in Obj |-> FALSE]
           /\ InitRest

Chains == {f \in Forests : \A o \in Obj : f[o] \in {None, o - 1}}

BoneTrees == {h \in [Bone -> 0..NBone] : \A b \in Bone : h[b] \in {None, b - 1}}

\* Family 3: one armature (collapsed or not) with its bones, one bone possibly
\* constrained CHILD_OF to a target object, one mesh possibly skinned by the
\* armature, carrying an armature modifier without object, or marked
\* MergeChildren; the armature or the target possibly excluded; object 1
\* possibly in a child collection, which is visited before the master
\* collection's own objects.
InitArmature ==
    \E f \in Chains, arm \in Obj, tgt \in Obj, collapsed \in BOOLEAN, h \in BoneTrees,
       cb \in 0..NBone, exc \in 0..NObj, sk \in 0..NObj,
       kind \in {"skin", "modnone", "mc"}, in1 \in BOOLEAN :
        /\ tgt # arm
        /\ exc \in {None, arm} \cup (IF cb # 0 THEN {tgt} ELSE {})
        /\ sk # arm
        /\ sk = 0 => kind = "skin"
        /\ scene = [BaseScene(f) EXCEPT
                        !.otype = [o \in Obj |-> IF o = arm THEN "ARMATURE" ELSE "MESH"],
                        !.ocoll = [o \in Obj |-> IF in1 /\ RootOf(f, o) = 1 THEN 1 ELSE 0],
                        !.cparent = [c \in Coll \ {0} |-> IF c = 1 THEN 0 ELSE Detached],
                        !.collapse = [o \in Obj |-> o = arm /\ collapsed],
                        !.exclude_from_export = [o \in Obj |-> o = exc],
                        !.bone_parent = h,
                        !.child_of = [b \in Bone |-> IF b = cb THEN tgt ELSE None],
                        !.armature_mod =
                            [o \in Obj |-> IF o # sk \/ kind = "mc" THEN Detached
                                           ELSE IF kind = "skin" THEN arm ELSE None],
                        !.merge_children = [o \in Obj |-> o = sk /\ kind = "mc"]]
        /\ settings = BaseSettings
        /\ operator = BaseOperator
        /\ hide_viewport = [o \in Obj |-> FALSE]
        /\ InitRest

\* The matrices the inputs are drawn from: the identity, a swap and a rotation
\* of the axes (the last two do not commute).
Matrices == {<<1, 2, 3>>, <<2, 1, 3>>, <<2, 3, 1>>}

\* Family 4: an armature (collapsed or not) and a target object, side by side
\* in either order, a bone constrained CHILD_OF to the target (possibly
\* excluded), with the world matrices of the target and the armature and the
\* local matrix of the bone drawn from Matrices.
InitChildOf ==
    \E arm \in Obj, tgt \in Obj, collapsed \in BOOLEAN, h \in BoneTrees, cb \in Bone,
       exc \in BOOLEAN, tw \in Matrices, aw \in Matrices, bl \in Matrices :
        /\ tgt # arm
        /\ scene = [BaseScene([o \in Obj |-> None]) EXCEPT
                        !.otype = [o \in Obj |-> IF o = arm THEN "ARMATURE" ELSE "MESH"],
                        !.collapse = [o \in Obj |-> o = arm /\ collapsed],
                        !.exclude_from_export = [o \in Obj |-> exc /\ o = tgt],
                        !.bone_parent = h,
                        !.child_of = [b \in Bone |-> IF b = cb THEN tgt ELSE None],
                        !.matrix_world = [o \in Obj |-> IF o = tgt THEN tw
                                                        ELSE IF o = arm THEN aw ELSE Identity],
                        !.matrix_local = [b \in Bone |-> IF b = cb THEN bl ELSE <<3, 2, 1>>]]
        /\ settings = BaseSettings
        /\ operator = BaseOperator
        /\ hide_viewport = [o \in Obj |-> FALSE]
        /\ InitRest

Frames == 0..MaxFrame
KeyPairs == {K \in SUBSET Frames : \E lo \in Frames, hi \in Frames : K = {lo, hi}}

\* Action.frame_range: the manual range when one is set, else the range the
\* keyframes of all F-curves of the action span.
FrameRange(fcurves, manual) ==
    IF manual # <<>> THEN manual
    ELSE LET ks == UNION {fc.keys : fc \in fcurves}
         IN IF ks = {} THEN <<0, 0>>
            ELSE << CHOOSE x \in ks : \A y \in ks : x <= y,
                    CHOOSE x \in ks : \A y \in ks : x >= y >>

\* Family 5: a flat scene whose object 1 (a mesh, or an armature animated
\* through its bones) and possibly object 2 are animated by one action.  The
\* second F-curve addresses object 2 (bone 2), or the same object (bone) as the
\* first one.
InitAnimation ==
    \E armature \in BOOLEAN, path \in {"location", "custom"}, K1 \in KeyPairs,
       K2 \in KeyPairs \cup {{}}, same \in BOOLEAN, hidden \in SUBSET {1, 2},
       f0 \in {0, MaxFrame},
       manual \in {<<>>, <<1, MaxFrame>>, <<0, MaxFrame - 1>>} :
        LET c1 == [obj |-> 1, bone |-> IF armature THEN 1 ELSE None,
                   path |-> path, keys |-> K1]
            c2 == [obj |-> IF armature \/ same THEN 1 ELSE 2,
                   bone |-> IF armature THEN (IF same THEN 1 ELSE 2) ELSE None,
                   path |-> "location", keys |-> K2]
            fcurves == {c1} \cup (IF K2 = {} THEN {} ELSE {c2})
        IN /\ same => (K2 # {} /\ path = "custom")
           /\ scene = [BaseScene([o \in Obj |-> None]) EXCEPT
                          !.otype = [o \in Obj |-> IF o = 1 /\ armature
                                                   THEN "ARMATURE" ELSE "MESH"],
                          !.oaction = [o \in Obj |->
                                          IF o = 1 \/ (o = 2 /\ ~armature /\ ~same /\ K2 # {})
                                          THEN 1 ELSE None],
                          !.action = [frame_range |-> FrameRange(fcurves, manual),
                                      fcurves |-> fcurves],
                          !.fps = 25]
           /\ settings = BaseSettings
           /\ operator = BaseOperator
           /\ hide_viewport = [o \in Obj |-> o \in hidden]
           /\ frame_current = f0
           /\ i3d = NewI3D
           /\ stack = <<>>
           /\ pc = "start"
           /\ export_data = [success |-> "unset", time |-> "unset"]
           /\ anim = NoAnim
           /\ output = NewOutput

\* Family 6: a flat scene whose objects are meshes or of a type the exporter has
\* no node class for ('FONT'), that type being among the exported ones; object 1,
\* when a mesh, is animated; the log file is requested or not.
InitFailure ==
    \E ty \in [Obj -> {"MESH", "FONT"}], K \in KeyPairs, log \in BOOLEAN :
        LET fcurves == {[obj |-> 1, bone |-> None, path |-> "location", keys |-> K]}
        IN /\ scene = [BaseScene([o \in Obj |-> None]) EXCEPT
                          !.otype = ty,
                          !.oaction = [o \in Obj |-> IF o = 1 /\ ty[1] = "MESH"
                                                     THEN 1 ELSE None],
                          !.action = [frame_range |-> FrameRange(fcurves, <<>>),
                                      fcurves |-> fcurves],
                          !.fps = 25]
           /\ settings = [BaseSettings EXCEPT !.object_types_to_export = AllTypes \cup {"FONT"}]
           /\ operator = [BaseOperator EXCEPT !.log_to_file = log]
           /\ hide_viewport = [o \in Obj |-> FALSE]
           /\ InitRest

\* Family 8: an armature (collapsed or not) and a target object, side by side
\* in either order; a bone is constrained CHILD_OF to the target (possibly
\* excluded, so that the constraint is never resolved); that bone or another
\* one is animated; the world matrices of target and armature and the
\* constrained bone's matrix are drawn from Matrices, and the sampled pose is
\* the rest pose.
InitBoneAnim ==
    \E arm \in Obj, tgt \in Obj, collapsed \in BOOLEAN, h \in BoneTrees, cb \in Bone,
       ab \in Bone, exc \in BOOLEAN, tw \in Matrices, aw \in Matrices, bl \in Matrices :
        LET fcurves == {[obj |-> arm, bone |-> ab, path |-> "location", keys |-> {0, 1}]}
            rest    == [b \in Bone |-> IF b = cb THEN bl ELSE <<3, 2, 1>>]
        IN /\ tgt # arm
           /\ scene = [BaseScene([o \in Obj |-> None]) EXCEPT
                          !.otype = [o \in Obj |-> IF o = arm THEN "ARMATURE" ELSE "MESH"],
                          !.collapse = [o \in Obj |-> o = arm /\ collapsed],
                          !.exclude_from_export = [o \in Obj |-> exc /\ o = tgt],
                          !.bone_parent = h,
                          !.child_of = [b \in Bone |-> IF b = cb THEN tgt ELSE None],
                          !.matrix_world = [o \in Obj |-> IF o = tgt THEN tw
                                                          ELSE IF o = arm THEN aw
                                                          ELSE Identity],
                          !.matrix_local = rest,
                          !.pose_matrix = rest,
                          !.oaction = [o \in Obj |-> IF o = arm THEN 1 ELSE None],
                          !.action = [frame_range |-> FrameRange(fcurves, <<>>),
                                      fcurves |-> fcurves],
                          !.fps = 25]
           /\ settings = BaseSettings
           /\ operator = BaseOperator
           /\ hide_viewport = [o \in Obj |-> FALSE]
           /\ InitRest

\* Family 7: every phase has work to do.  Object 1 is an armature (collapsed or
\* not) animated through bone 1, a bone possibly constrained CHILD_OF to object
\* 2, which is exported after the armature; object 2 is a mesh, possibly marked
\* MergeChildren, with the mesh 3 as its child.
InitPhases ==
    \E collapsed \in BOOLEAN, K \in KeyPairs, mc \in BOOLEAN, cb \in 0..NBone,
       h \in BoneTrees :
        LET fcurves == {[obj |-> 1, bone |-> 1, path |-> "location", keys |-> K]}
        IN /\ scene = [BaseScene([o \in Obj |-> IF o = 3 THEN 2 ELSE None]) EXCEPT
                          !.otype = [o \in Obj |-> IF o = 1 THEN "ARMATURE" ELSE "MESH"],
                          !.collapse = [o \in Obj |-> o = 1 /\ collapsed],
                          !.merge_children = [o \in Obj |-> o = 2 /\ mc],
                          !.bone_parent = h,
                          !.child_of = [b \in Bone |-> IF b = cb THEN 2 ELSE None],
                          !.oaction = [o \in Obj |-> IF o = 1 THEN 1 ELSE None],
                          !.action = [frame_range |-> FrameRange(fcurves, <<>>),
                                      fcurves |-> fcurves],
                          !.fps = 25]
           /\ settings = BaseSettings
           /\ operator = BaseOperator
           /\ hide_viewport = [o \in Obj |-> FALSE]
           /\ InitRest

Init ==
    \/ InitBoneAnim
    \/ InitPhases
    \/ InitHierarchy
    \/ InitCollections
    \/ InitArmature
    \/ InitChildOf
    \/ InitAnimation
    \/ InitFailure

\* ----------------------------------------------------- animation.py ---
ValidPaths == {"location", "rotation_euler", "rotation_quaternion", "scale"}

\* anim_utils.action_get_channelbag_for_slot: the F-curves of the object's slot.
Channelbag(o) == {fc \in scene.action.fcurves : fc.obj = o}

\* Keyframes._filter_fcurves
_filter_fcurves(node, channelbag) ==
    IF node.cls = "SkinnedMeshBoneNode"
    THEN {fc \in channelbag : fc.bone = node.ent.i}
    ELSE channelbag

\* Keyframes._needs_baking
_needs_baking(fcurves) == \E fc \in fcurves : fc.path \notin ValidPaths

RECURSIVE SortedFrames(_)
SortedFrames(S) ==
    IF S = {} THEN <<>>
    ELSE LET m == CHOOSE x \in S : \A y \in S : x <= y
         IN <<m>> \o SortedFrames(S \ {m})

\* keyframe_list without the baking branch: the native keyframe times, always.
keyframe_list_Native(fcurves, start_frame, end_frame) ==
    SortedFrames(UNION {fc.keys : fc \in fcurves})

\* The keyframe_list of Keyframes._generate_keyframes.
keyframe_list(fcurves, start_frame, end_frame) ==
    IF _needs_baking(fcurves)
    THEN [k \in 1..(end_frame - start_frame + 1) |-> start_frame + k - 1]
    ELSE SortedFrames(UNION {fc.keys : fc \in fcurves})

\* time_ms of Keyframes._generate_keyframes, as the exact fraction num / den.
time_ms(frame, start_frame, fps) == [num |-> (frame - start_frame) * 1000, den |-> fps]

\* Keyframes.__init__ for one node: the track and the frames it will sample.
Keyframes(n, node, channelbag, start_frame, end_frame) ==
    LET fcurves == _filter_fcurves(node, channelbag)
    IN [node |-> n,
        needs_baking |-> _needs_baking(fcurves),
        has_translation |-> (\E fc \in fcurves : fc.path = "location") \/ _needs_baking(fcurves),
        has_rotation |-> (\E fc \in fcurves : fc.path \in {"rotation_euler", "rotation_quaternion"})
                         \/ _needs_baking(fcurves),
        has_scale |-> (\E fc \in fcurves : fc.path = "scale") \/ _needs_baking(fcurves),
        frames |-> keyframe_list(fcurves, start_frame, end_frame),
        keyframes |-> <<>>]

\* Clip._generate_clip: the Keyframes objects built for the (node, slot) pairs
\* of an action, in order; an armature contributes one per processed bone.
RECURSIVE BoneTracks(_, _, _, _, _)
BoneTracks(i, bs, channelbag, start_frame, end_frame) ==
    IF bs = <<>> THEN <<>>
    ELSE LET rest == BoneTracks(i, Tail(bs), channelbag, start_frame, end_frame)
         IN IF bs[1] \in DOMAIN i.processed_objects
            THEN <<Keyframes(i.processed_objects[bs[1]], i.nodes[i.processed_objects[bs[1]]],
                             channelbag, start_frame, end_frame)>> \o rest
            ELSE rest

RECURSIVE _generate_clip(_, _)
_generate_clip(i, pairs) ==
    IF pairs = <<>> THEN <<>>
    ELSE LET n    == pairs[1]
             node == i.nodes[n]
             o    == node.ent.i
             start_frame == scene.action.frame_range[1]
             end_frame   == scene.action.frame_range[2]
             rest == _generate_clip(i, Tail(pairs))
         IN IF Channelbag(o) = {} THEN rest
            ELSE IF scene.otype[o] = "ARMATURE"
            THEN BoneTracks(i, BoneOrder(Bone), Channelbag(o), start_frame, end_frame) \o rest
            ELSE <<Keyframes(n, node, Channelbag(o), start_frame, end_frame)>> \o rest

\* Keyframes._bone_anim_matrix for the bone node n and its pose matrix.
_bone_anim_matrix(i, n, pose_local) ==
    LET node     == i.nodes[n]
        parent   == node.parent
        armature == i.nodes[node.root_node].ent.i
        bone_in_arm_i3d == to_i3d_forward(pose_local)
        arm_world_i3d   == to_i3d(scene.matrix_world[armature])
    IN IF parent # None /\ i.nodes[parent].cls = "SkinnedMeshBoneNode"
       THEN MatMul(inverted_safe(scene.pose_matrix[i.nodes[parent].ent.i]), pose_local)
       ELSE IF parent = node.root_node /\ ~i.nodes[node.root_node].is_collapsed
       THEN bone_in_arm_i3d
       ELSE LET parent_world_i3d ==
                    IF parent # None /\ i.nodes[parent].ent.k = "OBJ"
                    THEN to_i3d(scene.matrix_world[i.nodes[parent].ent.i])
                    ELSE Identity
            IN MatMul(MatMul(inverted_safe(parent_world_i3d), arm_world_i3d), bone_in_arm_i3d)

\* The conv_matrix of Keyframes._generate_keyframe for the node n.
conv_matrix(i, n) ==
    IF i.nodes[n].cls = "SkinnedMeshBoneNode"
    THEN _bone_anim_matrix(i, n, scene.pose_matrix[i.nodes[n].ent.i])
    ELSE TransformGroupTransform(i, n)

\* Keyframes.is_empty without its test: no track counts as empty.
is_empty_Never(track) == FALSE

\* Keyframes.is_empty: `not self.xml_element`, true of an element without
\* children.
is_empty(track) == track.keyframes = <<>>

\* The Keyframes elements _generate_clip has appended to the Clip once every
\* track is built: those that are not empty, in order.
ClipKeyframes(tracks) == SelectSeq(tracks, LAMBDA t : ~is_empty(t))

\* Animation._export: every action of anim_links yields one AnimationSet with
\* one Clip.
RECURSIVE AllTracks(_, _)
AllTracks(i, links) ==
    IF links = <<>> THEN <<>>
    ELSE _generate_clip(i, links[1].pairs) \o AllTracks(i, Tail(links))

\* Animation._temporary_unhide_objects: the objects of the linked nodes.
affected_objects(i) ==
    UNION {{i.nodes[n].ent.i : n \in SeqToSet(i.anim_links[l].pairs)} :
              l \in 1..Len(i.anim_links)}

\* ----------------------------------------------------- the actions ---
\* export_blend_to_i3d up to the dispatch on the selection mode.
BeginExport ==
    /\ pc = "start"
    /\ UNCHANGED <<scene, settings, operator, hide_viewport, frame_current, anim, export_data>>
    /\ output' = IF operator.collection # Detached /\ operator.collection \notin Coll
                 THEN [output EXCEPT !.reports = @ \cup {"ERROR: collection not found"}]
                 ELSE output
    /\ IF operator.collection # Detached /\ operator.collection \notin Coll
       THEN \* the named collection was not found: operator.report, return None
            /\ pc' = "returned_none"
            /\ UNCHANGED <<i3d, stack>>
       ELSE IF operator.collection # Detached
       THEN /\ pc' = "traverse"
            /\ stack' = _export_collection_content(operator.collection)
            /\ UNCHANGED i3d
       ELSE IF operator.selection = "ALL"
       THEN /\ pc' = "traverse"
            /\ stack' = _export_collection_content(0)
            /\ UNCHANGED i3d
       ELSE IF operator.selection = "ACTIVE_COLLECTION"
       THEN /\ pc' = "traverse"
            /\ stack' = _export_collection_content(scene.active_collection)
            /\ UNCHANGED i3d
       ELSE IF operator.selection = "ACTIVE_OBJECT"
       THEN /\ pc' = "traverse"
            /\ stack' = IF scene.active_object # None
                        THEN <<ExportFrame({ObjEnt(scene.active_object)}, TRUE)>>
                        ELSE <<>>
            /\ UNCHANGED i3d
       ELSE \* 'SELECTED_OBJECTS'
            /\ pc' = "traverse"
            /\ IF scene.selected_objects = {}
               THEN UNCHANGED <<i3d, stack>>
               ELSE IF settings.selection_traverse_children
               THEN /\ stack' = <<ExportFrame({ObjEnt(o) : o \in scene.selected_objects}, TRUE)>>
                    /\ UNCHANGED i3d
               ELSE LET r == _export_selected_only(i3d, scene.selected_objects)
                    IN i3d' = r.i /\ stack' = r.calls

\* One call of _export or _add_object_to_i3d: the innermost pending call runs;
\* the calls it makes are pending before its caller's remaining ones.  An
\* exception leaves the traversal for the handler of export_blend_to_i3d.
TraverseStep ==
    /\ pc = "traverse"
    /\ stack # <<>>
    /\ LET fr == Head(stack)
           r  == IF fr.op = "export" THEN _export(i3d, fr.ents, fr.sort)
                 ELSE _add_object_to_i3d(i3d, fr.ent, fr.parent)
       IN /\ i3d' = r.i
          /\ IF r.raised
             THEN pc' = "except" /\ stack' = <<>>
             ELSE pc' = pc /\ stack' = r.calls \o Tail(stack)
    /\ UNCHANGED <<scene, settings, operator, hide_viewport, frame_current, anim, export_data, output>>

\* _process_deferred_constraints with an empty loop body: the queue is left as
\* the traversal filled it.
_process_deferred_constraints_Skipped(i, cs) == i

\* _process_deferred_constraints
RECURSIVE _process_deferred_constraints(_, _)
_process_deferred_constraints(i, cs) ==
    IF cs = <<>> THEN i
    ELSE LET bone_node  == cs[1][1]
             target_obj == ObjEnt(cs[1][2])
             i1 == IF target_obj \in DOMAIN i.processed_objects
                   THEN reparent(i, bone_node, i.processed_objects[target_obj])
                   ELSE Warn(i, "deferred_target_not_processed", BoneEnt(i.nodes[bone_node].ent.i))
         IN _process_deferred_constraints(i1, Tail(cs))

\* Lines 94-95 run without waiting for the traversal: the pending calls are
\* left behind.
ProcessDeferredConstraints_Early ==
    /\ pc = "traverse"
    /\ i3d' = _process_deferred_constraints(i3d, i3d.deferred_constraints)
    /\ pc' = "shapes"
    /\ UNCHANGED <<scene, settings, operator, stack, hide_viewport, frame_current, anim,
                   export_data, output>>

\* export_blend_to_i3d, lines 94-95: runs once the traversal has returned.
ProcessDeferredConstraints ==
    /\ pc = "traverse"
    /\ stack = <<>>
    /\ i3d' = _process_deferred_constraints(i3d, i3d.deferred_constraints)
    /\ pc' = "shapes"
    /\ UNCHANGED <<scene, settings, operator, stack, hide_viewport, frame_current, anim,
                   export_data, output>>

\* export_blend_to_i3d, lines 97-100.
PopulateDeferredShapes ==
    /\ pc = "shapes"
    /\ output' = [output EXCEPT !.shapes_populated = i3d.deferred_shapes_to_populate]
    /\ pc' = "anim"
    /\ UNCHANGED <<scene, settings, operator, i3d, stack, hide_viewport, frame_current, anim,
                   export_data>>

\* export_blend_to_i3d, lines 102-103, up to the point where the body of the
\* `with self._temporary_unhide_objects()` block starts.
EnterAnimation ==
    /\ pc = "anim"
    /\ ~anim.running
    /\ IF i3d.anim_links = <<>>
       THEN /\ pc' = "write"
            /\ UNCHANGED <<anim, hide_viewport, output>>
       ELSE /\ pc' = pc
            /\ output' = [output EXCEPT !.animation_sets.exists = TRUE]
            /\ anim' = [running |-> TRUE, started |-> TRUE,
                        tracks |-> AllTracks(i3d, i3d.anim_links),
                        original_hide_state |->
                            [o \in affected_objects(i3d) |-> hide_viewport[o]],
                        frame_at_entry |-> frame_current,
                        hide_at_entry |-> hide_viewport]
            /\ hide_viewport' = [o \in Obj |-> IF o \in affected_objects(i3d)
                                                THEN FALSE ELSE hide_viewport[o]]
    /\ UNCHANGED <<scene, settings, operator, i3d, stack, frame_current, export_data>>

\* _temporary_unhide_objects without its finally clause: the flags stay as the
\* block left them.
RestoreHideState_Forgotten == hide_viewport

\* The finally clause of _temporary_unhide_objects.
RestoreHideState ==
    [o \in Obj |-> IF o \in DOMAIN anim.original_hide_state
                   THEN anim.original_hide_state[o] ELSE hide_viewport[o]]

PendingTracks == {t \in 1..Len(anim.tracks) :
                    Len(anim.tracks[t].keyframes) < Len(anim.tracks[t].frames)}

\* Keyframes._generate_keyframe for the next frame of the track being built:
\* the scene is moved to the frame and the keyframe is appended.
GenerateKeyframe ==
    /\ pc = "anim"
    /\ anim.running
    /\ PendingTracks # {}
    /\ LET t     == CHOOSE x \in PendingTracks : \A y \in PendingTracks : x <= y
           frame == anim.tracks[t].frames[Len(anim.tracks[t].keyframes) + 1]
           kf    == [frame |-> frame,
                     time |-> time_ms(frame, scene.action.frame_range[1], scene.fps),
                     matrix |-> conv_matrix(i3d, anim.tracks[t].node),
                     attrs |-> (IF anim.tracks[t].has_translation THEN {"translation"} ELSE {})
                               \cup (IF anim.tracks[t].has_rotation THEN {"rotation"} ELSE {})
                               \cup (IF anim.tracks[t].has_scale THEN {"scale"} ELSE {})]
       IN /\ frame_current' = frame
          /\ anim' = [anim EXCEPT !.tracks[t].keyframes = Append(@, kf)]
    /\ UNCHANGED <<scene, settings, operator, i3d, stack, pc, hide_viewport, export_data, output>>

\* An exception inside the `with` block (a Blender call failing while a frame
\* is sampled): the finally clause runs, the exception reaches the handler of
\* export_blend_to_i3d.
BakeRaises ==
    /\ pc = "anim"
    /\ anim.running
    /\ PendingTracks # {}
    /\ hide_viewport' = RestoreHideState
    /\ anim' = [anim EXCEPT !.running = FALSE]
    /\ pc' = "except"
    /\ UNCHANGED <<scene, settings, operator, i3d, stack, frame_current, export_data, output>>

\* What the graph holds for each exported bone: the entity its node hangs
\* under, the case that wrote its transform, and the transform.
WrittenBones(i) ==
    [b \in {x \in Bone : BoneEnt(x) \in DOMAIN i.processed_objects} |->
        LET n == i.processed_objects[BoneEnt(b)]
        IN [under |-> IF i.nodes[n].parent = None THEN ObjEnt(None)
                      ELSE i.nodes[i.nodes[n].parent].ent,
            case |-> i.nodes[n].transform_case,
            transform |-> i.nodes[n].transform]]

\* A second export of the scene: after a successful export the armature and the
\* target of a CHILD_OF constraint swap their names, and with them their
\* places in the name order, and export_blend_to_i3d starts again.  The file
\* of the first export is still there.
ExportAgainRenamed ==
    /\ pc = "done"
    /\ output.file_written
    /\ output.previous = <<>>
    /\ scene.oname = [o \in Obj |-> o]
    /\ \E b \in Bone, a \in Obj :
          /\ scene.child_of[b] # None
          /\ scene.otype[a] = "ARMATURE"
          /\ scene' = [scene EXCEPT !.oname =
                          [o \in Obj |-> IF o = a THEN scene.child_of[b]
                                         ELSE IF o = scene.child_of[b] THEN a
                                         ELSE o]]
    /\ i3d' = NewI3D
    /\ stack' = <<>>
    /\ pc' = "start"
    /\ export_data' = [success |-> "unset", time |-> "unset"]
    /\ anim' = NoAnim
    /\ output' = [NewOutput EXCEPT !.previous = WrittenBones(i3d)]
    /\ UNCHANGED <<settings, operator, hide_viewport, frame_current>>

\* Animation._export has finished: the Clip of the action holds the tracks that
\* are not empty and its count is set; the `with` block is left normally.
LeaveAnimation ==
    /\ pc = "anim"
    /\ anim.running
    /\ PendingTracks = {}
    /\ hide_viewport' = RestoreHideState
    /\ anim' = [anim EXCEPT !.running = FALSE]
    /\ output' = [output EXCEPT !.animation_sets.count = Len(i3d.anim_links),
                                !.clip = [keyframes |-> ClipKeyframes(anim.tracks),
                                          count |-> Len(ClipKeyframes(anim.tracks))]]
    /\ pc' = "write"
    /\ UNCHANGED <<scene, settings, operator, i3d, stack, frame_current, export_data>>

\* export_blend_to_i3d, line 105.
ExportToFile ==
    /\ pc = "write"
    /\ output' = [output EXCEPT !.file_written = TRUE]
    /\ pc' = "binarize"
    /\ UNCHANGED <<scene, settings, operator, i3d, stack, hide_viewport, frame_current, anim,
                   export_data>>

\* export_blend_to_i3d, line 105, when writing the file raises (the path
\* cannot be written): the exception reaches the handler of export_blend_to_i3d.
ExportToFileRaises ==
    /\ pc = "write"
    /\ pc' = "except"
    /\ UNCHANGED <<scene, settings, operator, i3d, stack, hide_viewport, frame_current, anim,
                   export_data, output>>

\* export_blend_to_i3d, lines 107-108.  operator.binarize_i3d is read here and
\* nowhere else; its value is drawn when it is read.
Binarize ==
    /\ pc = "binarize"
    /\ \E binarize_i3d \in BOOLEAN :
          output' = [output EXCEPT !.binarize_requested = binarize_i3d,
                                   !.binarized = binarize_i3d]
    /\ pc' = "epilogue"
    /\ UNCHANGED <<scene, settings, operator, i3d, stack, hide_viewport, frame_current, anim,
                   export_data>>

\* The epilogue without its except clause: every export is recorded as a
\* success.
Epilogue_AlwaysSuccess ==
    /\ pc \in {"epilogue", "except"}
    /\ export_data' = [success |-> "True", time |-> "elapsed"]
    /\ output' = [output EXCEPT !.log_handler = IF @ = "attached" THEN "removed" ELSE @]
    /\ pc' = "done"
    /\ UNCHANGED <<scene, settings, operator, i3d, stack, hide_viewport, frame_current, anim>>

\* export_blend_to_i3d, lines 110-129: the except / else clauses and the
\* epilogue that records the elapsed time.
Epilogue ==
    /\ pc \in {"epilogue", "except"}
    /\ export_data' = [success |-> IF pc = "epilogue" THEN "True" ELSE "False",
                       time |-> "elapsed"]
    /\ output' = [output EXCEPT !.log_handler = IF @ = "attached" THEN "removed" ELSE @]
    /\ pc' = "done"
    /\ UNCHANGED <<scene, settings, operator, i3d, stack, hide_viewport, frame_current, anim>>

Next ==
    \/ BeginExport
    \/ TraverseStep
    \/ ProcessDeferredConstraints
    \/ PopulateDeferredShapes
    \/ EnterAnimation
    \/ GenerateKeyframe
    \/ BakeRaises
    \/ LeaveAnimation
    \/ ExportToFile
    \/ ExportToFileRaises
    \/ Binarize
    \/ Epilogue

\* The steps of scenes in which nothing is animated.
NextStructure ==
    \/ BeginExport
    \/ TraverseStep
    \/ ProcessDeferredConstraints
    \/ PopulateDeferredShapes
    \/ EnterAnimation
    \/ ExportToFile
    \/ ExportToFileRaises
    \/ Binarize
    \/ Epilogue

Spec == Init /\ [][Next]_vars

SpecHierarchy == InitHierarchy /\ [][NextStructure]_vars

SpecCollections == InitCollections /\ [][NextStructure]_vars

SpecArmature == InitArmature /\ [][NextStructure]_vars

SpecChildOf == InitChildOf /\ [][NextStructure]_vars

SpecAnimation == InitAnimation /\ [][Next]_vars

SpecFailure == InitFailure /\ [][Next]_vars

SpecPhases == InitPhases /\ [][Next]_vars

SpecBoneAnim == InitBoneAnim /\ [][Next]_vars

\* The child-of family exported in either order of armature and target.
NextRenamed ==
    \/ NextStructure
    \/ ExportAgainRenamed

SpecRenamed == InitChildOf /\ [][NextRenamed]_vars

\* ============================================================ claims ===
Nodes == 1..Len(i3d.nodes)
NodesOf(e) == {n \in Nodes : i3d.nodes[n].ent = e}
TypeExcluded(o) == scene.otype[o] \notin settings.object_types_to_export
Includable(o) == ~scene.exclude_from_export[o] /\ ~TypeExcluded(o)
TraversalReturned == pc = "traverse" /\ stack = <<>>

\* C1: in a chain A -> B -> C of an 'ALL' export where only B is excluded by
\* its type (no object is flagged exclude_from_export), C gets a node whose
\* parent is A's node.
C1_TypeExclusionKeepsDescendants ==
    (TraversalReturned /\ operator.selection = "ALL") =>
        \A a \in Obj, b \in Obj, c \in Obj :
            ( /\ scene.oparent[a] = None /\ scene.oparent[b] = a /\ scene.oparent[c] = b
              /\ Includable(a) /\ Includable(c)
              /\ ~scene.exclude_from_export[b] /\ TypeExcluded(b) )
            => \E n \in NodesOf(ObjEnt(c)) : i3d.nodes[n].parent \in NodesOf(ObjEnt(a))

\* C2: in every export mode no node ever exists for an object flagged
\* exclude_from_export, nor for a descendant of such an object.
C2_ExcludedSubtreeDropped ==
    \A o \in Obj :
        (scene.exclude_from_export[o] \/ \E a \in ObjAncestors(o) : scene.exclude_from_export[a])
        => NodesOf(ObjEnt(o)) = {}

StructuralWarnings ==
    {"merge_children_no_meshes", "armature_modifier_without_object", "armature_not_in_export"}

\* C3: a mesh for which one of the three structural warnings was logged has
\* exactly one node, a plain Shape, and the export has not raised.
C3_WarningsDegradeToShape ==
    /\ i3d.warnings \cap {[w |-> k, ent |-> ObjEnt(o)] : k \in StructuralWarnings, o \in Obj} # {}
            => pc # "except"
    /\ \A w \in i3d.warnings :
            w.w \in StructuralWarnings =>
                /\ Cardinality(NodesOf(w.ent)) = 1
                /\ \A n \in NodesOf(w.ent) : i3d.nodes[n].cls = "ShapeNode"

\* C4: once the deferred constraints have been processed, every bone with a
\* CHILD_OF constraint whose target object has a node is parented to that node.
C4_ChildOfIndependentOfOrder ==
    pc = "shapes" =>
        \A b \in Bone :
            (scene.child_of[b] # None /\ NodesOf(ObjEnt(scene.child_of[b])) # {})
            => \A n \in NodesOf(BoneEnt(b)) :
                   i3d.nodes[n].parent \in NodesOf(ObjEnt(scene.child_of[b]))

\* C5: when the file is about to be written every node's transform has been
\* finalized exactly once, and no node was reparented after it was finalized.
C5_FinalizedOnceAfterParenting ==
    pc = "write" =>
        \A n \in Nodes : i3d.nodes[n].n_finalize = 1 /\ ~i3d.nodes[n].moved_after_finalize

CollapsedArmatures ==
    {a \in Nodes : i3d.nodes[a].cls = "SkinnedMeshRootNode" /\ i3d.nodes[a].is_collapsed}

BoneNodesOf(a) ==
    {n \in Nodes : i3d.nodes[n].cls = "SkinnedMeshBoneNode" /\ i3d.nodes[n].root_node = a}

\* The node of the armature's own parent in the source hierarchy (None: the
\* armature is a root object, its parent is the scene root).
OwnParent(a) ==
    LET p == scene.oparent[i3d.nodes[a].ent.i]
    IN IF p # None /\ ObjEnt(p) \in DOMAIN i3d.processed_objects
       THEN i3d.processed_objects[ObjEnt(p)] ELSE None

RootBonesNoChildOf == {b \in Bone : scene.bone_parent[b] = None /\ scene.child_of[b] = None}
ChildOfBones == {b \in Bone : scene.child_of[b] # None}

C6_BonePlacement(a, n) ==
    LET b   == i3d.nodes[n].ent.i
        tgt == scene.child_of[b]
        pb  == scene.bone_parent[b]
    IN IF i3d.nodes[n].is_child_of /\ NodesOf(ObjEnt(tgt)) # {}
       THEN i3d.nodes[n].parent \in NodesOf(ObjEnt(tgt))
       ELSE IF pb # None
       THEN i3d.nodes[n].parent \in NodesOf(BoneEnt(pb))
       ELSE IF ~i3d.nodes[n].is_child_of /\ i3d.nodes[a].parenting_finalized
       THEN i3d.nodes[n].parent = OwnParent(a)
       ELSE i3d.nodes[n].parent = a

TracksDone == anim.started /\ ~anim.running /\ pc = "write"

\* C7: in every emitted track the first keyframe is at 0 ms and no keyframe
\* has a negative time.
C7_KeyframeTimesStartAtZero ==
    TracksDone =>
        \A t \in 1..Len(anim.tracks) :
            Len(anim.tracks[t].keyframes) > 0 =>
                /\ anim.tracks[t].keyframes[1].time.num = 0
                /\ \A k \in 1..Len(anim.tracks[t].keyframes) :
                        anim.tracks[t].keyframes[k].time.num >= 0

\* C8: after Animation(i3d) has returned or raised, the scene's current frame
\* is the one it was before the animation export started.
C8_FrameRestored ==
    (anim.started /\ ~anim.running) => frame_current = anim.frame_at_entry

\* C9: while the body of the `with` block of Animation runs, no object bound
\* in anim_links is hidden; once the block has been left, normally or by an
\* exception raised mid-bake, every such object's hide_viewport is what it was
\* before the block.
C9_VisibilityForcedAndRestored ==
    /\ anim.running => \A o \in affected_objects(i3d) : ~hide_viewport[o]
    /\ (anim.started /\ ~anim.running) =>
            \A o \in affected_objects(i3d) : hide_viewport[o] = anim.hide_at_entry[o]

\* The bake was aborted by an exception after a keyframe had been sampled, and
\* an animated object that was hidden before the block is hidden again.
C9_Witness ==
    /\ anim.started /\ ~anim.running /\ pc = "except"
    /\ \E t \in 1..Len(anim.tracks) : Len(anim.tracks[t].keyframes) > 0
    /\ \E o \in affected_objects(i3d) : anim.hide_at_entry[o] /\ hide_viewport[o]

\* The node a member of collection c is expected under, for a collection
\* reached through the collection-instance EMPTY with node ne: the instanced
\* collection hands its members to the EMPTY's node; a collection below it
\* does the same unless collections are kept, in which case its own
\* TransformGroup (under the expected node of the collection above) holds them.
C10_MembersUnder(nx, c, top, ne) ==
    IF c = top \/ ~settings.keep_collections_as_transformgroups
    THEN i3d.nodes[nx].parent = ne
    ELSE /\ i3d.nodes[nx].parent \in NodesOf(ColEnt(c))
         /\ scene.cparent[c] = top => i3d.nodes[i3d.nodes[nx].parent].parent = ne

\* C10: a collection that is not kept as a transform group passes the parent
\* it was met under on to its members, at every nesting depth: the root
\* objects of the collections below a collection-instance EMPTY hang under the
\* EMPTY's node.  A kept collection is a TransformGroup under that parent and
\* holds its members.
C10_CollectionTransparentForParenting ==
    TraversalReturned =>
        \A e \in Obj : \A ne \in NodesOf(ObjEnt(e)) :
            scene.instance_collection[e] # Detached =>
                \A c \in CollDescendants(scene.instance_collection[e]) :
                    \A x \in {y \in CollObjects(c) : scene.oparent[y] = None /\ Includable(y)} :
                        \E nx \in NodesOf(ObjEnt(x)) :
                            C10_MembersUnder(nx, c, scene.instance_collection[e], ne)

\* The objects the traversal reaches below a collapsed armature it has met and
\* for which no structural warning was logged.
C11_Reattachable(a) ==
    {o \in Obj : /\ scene.oparent[o] = i3d.nodes[a].ent.i
                 /\ Includable(o)
                 /\ \A w \in i3d.warnings : w.ent # ObjEnt(o)}

\* C11: once the traversal has returned, every object whose source parent is a
\* collapsed armature met by the traversal has a node whose parent is the node
\* of the armature's own parent (the scene root when it has none), never the
\* armature node, and the object's own children have their nodes below that
\* node (unless the object merges its children into itself), whether the armature node was built by the traversal or for a
\* skinned mesh's armature modifier.
C11_CollapsedArmatureChildrenReattached ==
    TraversalReturned =>
        \A a \in CollapsedArmatures :
            i3d.nodes[a].parenting_finalized =>
                \A o \in C11_Reattachable(a) :
                    \E n \in NodesOf(ObjEnt(o)) :
                        /\ i3d.nodes[n].parent = OwnParent(a)
                        /\ i3d.nodes[n].parent # a
                        /\ \A c \in ObjChildren(o) :
                              ( /\ i3d.nodes[n].cls # "MergeChildrenRoot"
                                /\ Includable(c)
                                /\ \A w \in i3d.warnings : w.ent # ObjEnt(c) )
                              => \E nc \in NodesOf(ObjEnt(c)) : i3d.nodes[nc].parent = n

\* A queued (bone node, target) pair is settled in session j, given the
\* session i before the deferred pass: the bone hangs under the target's node,
\* or the unresolved-target warning was logged and the bone's parent is the
\* one it had in i.
C12_Settled(i, j, c) ==
    LET bn  == c[1]
        tgt == ObjEnt(c[2])
    IN \/ /\ tgt \in DOMAIN j.processed_objects
          /\ j.nodes[bn].parent = j.processed_objects[tgt]
       \/ /\ [w |-> "deferred_target_not_processed", ent |-> j.nodes[bn].ent] \in j.warnings
          /\ j.nodes[bn].parent = i.nodes[bn].parent

\* C12: the step that ends the traversal settles every pair queued in
\* deferred_constraints (the bone is reparented to the target's node, or a
\* warning is logged and the bone keeps its parent), and every pair is still
\* settled when the file is about to be written.
C12_DeferredConstraintsSettled ==
    /\ [][(pc = "traverse" /\ pc' = "shapes") =>
            \A k \in 1..Len(i3d.deferred_constraints) :
                C12_Settled(i3d, i3d', i3d.deferred_constraints[k])]_vars
    /\ [](pc = "write" =>
            \A k \in 1..Len(i3d.deferred_constraints) :
                C12_Settled(i3d, i3d, i3d.deferred_constraints[k]))

\* The file is about to be written and a queued bone hangs under the node of
\* its target, which is not the node it was created under.
C12_Witness ==
    /\ pc = "write"
    /\ \E k \in 1..Len(i3d.deferred_constraints) :
          LET bn == i3d.deferred_constraints[k][1]
              tgt == ObjEnt(i3d.deferred_constraints[k][2])
          IN /\ tgt \in DOMAIN i3d.processed_objects
             /\ i3d.nodes[bn].parent = i3d.processed_objects[tgt]
             /\ i3d.nodes[bn].parent # i3d.nodes[bn].root_node

\* The curves of the action selected for the node of a track: for a bone the
\* curves addressing that bone of its armature, else the curves of the object.
C13_Selected(nd) ==
    IF nd.cls = "SkinnedMeshBoneNode"
    THEN {fc \in scene.action.fcurves :
            fc.obj = i3d.nodes[nd.root_node].ent.i /\ fc.bone = nd.ent.i}
    ELSE {fc \in scene.action.fcurves : fc.obj = nd.ent.i}

C13_Unsupported(fc) ==
    fc.path \notin {"location", "rotation_euler", "rotation_quaternion", "scale"}

\* C13: once the tracks are built, a track with a selected curve on an
\* unsupported property has exactly one keyframe per integer frame of
\* [start_frame, end_frame], in order, each carrying translation, rotation and
\* scale; any other track has exactly one keyframe per distinct native
\* keyframe time of its selected curves.
C13_BakingCoversTrack ==
    TracksDone =>
        \A t \in 1..Len(anim.tracks) :
            LET tr    == anim.tracks[t]
                sel   == C13_Selected(i3d.nodes[tr.node])
                start == scene.action.frame_range[1]
                end   == scene.action.frame_range[2]
                keys  == UNION {fc.keys : fc \in sel}
            IN IF \E fc \in sel : C13_Unsupported(fc)
               THEN /\ Len(tr.keyframes) = end - start + 1
                    /\ \A k \in 1..Len(tr.keyframes) :
                          /\ tr.keyframes[k].frame = start + k - 1
                          /\ tr.keyframes[k].attrs = {"translation", "rotation", "scale"}
               ELSE /\ Len(tr.keyframes) = Cardinality(keys)
                    /\ {tr.keyframes[k].frame : k \in 1..Len(tr.keyframes)} = keys

\* A finished baked track whose node also has a native location curve: it has
\* more keyframes than native keyframe times, one of them on a frame without
\* a native key.
C13_Witness ==
    /\ TracksDone
    /\ \E t \in 1..Len(anim.tracks) :
          LET tr  == anim.tracks[t]
              sel == C13_Selected(i3d.nodes[tr.node])
          IN /\ \E fc \in sel : C13_Unsupported(fc)
             /\ \E fc \in sel : fc.path = "location"
             /\ Len(tr.keyframes) > Cardinality(UNION {fc.keys : fc \in sel})
             /\ \E k \in 1..Len(tr.keyframes) :
                   tr.keyframes[k].frame \notin UNION {fc.keys : fc \in sel}

\* C14: when no object of the scene has an exported type (no node is created,
\* anim_links is empty) and the file has been written, the output holds an
\* AnimationSets element with count 0, and the export ends with success.
C14_EmptyExportComplete ==
    ( /\ \A o \in Obj : TypeExcluded(o)
      /\ i3d.nodes = <<>>
      /\ i3d.anim_links = <<>>
      /\ output.file_written )
    => /\ output.animation_sets.exists
       /\ output.animation_sets.count = 0
       /\ pc = "done" => export_data.success = "True"

\* The bone nodes whose child-of target is resolved: the bone carries the
\* constraint and its node hangs under the node of the target object.
C15_ResolvedChildOf ==
    {n \in Nodes : /\ i3d.nodes[n].cls = "SkinnedMeshBoneNode"
                   /\ i3d.nodes[n].is_child_of
                   /\ i3d.nodes[n].parent # None
                   /\ i3d.nodes[i3d.nodes[n].parent].ent
                          = ObjEnt(scene.child_of[i3d.nodes[n].ent.i])}

C15_Target(n) == scene.matrix_world[scene.child_of[i3d.nodes[n].ent.i]]
C15_Armature(n) == scene.matrix_world[i3d.nodes[i3d.nodes[n].root_node].ent.i]
C15_Bone(n) == scene.matrix_local[i3d.nodes[n].ent.i]

\* target_world^-1 * armature_world * bone_local_converted, written out on the
\* axis permutations.
C15_Expected(n) ==
    LET T == to_i3d(C15_Target(n))
        A == to_i3d(C15_Armature(n))
        B == to_i3d_forward(C15_Bone(n))
    IN [k \in 1..3 |-> (CHOOSE j \in 1..3 : T[j] = A[B[k]])]

\* The transform written for every bone with a resolved child-of target is
\* target_world^-1 * armature_world * bone_local_converted.
C15_ProductFormula ==
    \A n \in C15_ResolvedChildOf : i3d.nodes[n].transform = C15_Expected(n)

\* With an identity target world matrix it is bone_local_converted.
C15_IdentityTarget ==
    \A n \in C15_ResolvedChildOf :
        C15_Target(n) = Identity => i3d.nodes[n].transform = to_i3d_forward(C15_Bone(n))

\* C15: when the file is about to be written, the transform of a bone with a
\* resolved child-of target outside the armature is
\* target_world^-1 * armature_world * bone_local_converted, and with an identity
\* target world matrix it is bone_local_converted.
C15_ChildOfTransform ==
    pc = "write" => (C15_ProductFormula /\ C15_IdentityTarget)

\* The next step after an exception reached the handler of export_blend_to_i3d
\* is the return of the record, with success False and the elapsed time; the
\* graph, the animation and what was written stay as the failing phase left
\* them.
C16_OnlyTheEpilogueFollows ==
    pc = "except" =>
        /\ pc' = "done"
        /\ export_data' = [success |-> "False", time |-> "elapsed"]
        /\ i3d' = i3d
        /\ anim' = anim
        /\ output'.file_written = output.file_written
        /\ output'.binarized = output.binarized
        /\ output'.shapes_populated = output.shapes_populated

C17_MissingCollection == operator.collection # Detached /\ operator.collection \notin Coll

\* C17: when the operator names a collection that does not exist, the error is
\* reported through the operator and export_blend_to_i3d returns through its
\* epilogue: the record carries the elapsed time and the log file handler the
\* function added is closed and removed.
C17_MissingCollectionReported ==
    (C17_MissingCollection /\ pc \in {"returned_none", "done"})
    => /\ "ERROR: collection not found" \in output.reports
       /\ pc = "done"
       /\ export_data.time = "elapsed"
       /\ output.log_handler # "attached"

C18_SelectedOnly ==
    /\ operator.selection = "SELECTED_OBJECTS"
    /\ ~settings.selection_traverse_children
    /\ scene.selected_objects # {}

\* The node expected above the node of selected object o: the node of its
\* nearest selected ancestor, None (the scene root) when it has none.
C18_ParentOk(o, n) ==
    LET a == NearestSelected(scene.oparent[o], scene.selected_objects)
    IN IF a = None THEN i3d.nodes[n].parent = None
       ELSE i3d.nodes[n].parent \in NodesOf(ObjEnt(a))

\* C18: after a selected-only export every selected object that passes the
\* inclusion rules (its type is exported, neither it nor an ancestor is flagged
\* as excluded) has exactly one node, under the node of its nearest selected
\* ancestor or at the root; no unselected object has a node.
C18_SelectedOnlyHierarchy ==
    (C18_SelectedOnly /\ TraversalReturned) =>
        \A o \in Obj :
            /\ ( /\ o \in scene.selected_objects
                 /\ Includable(o)
                 /\ \A a \in ObjAncestors(o) : ~scene.exclude_from_export[a] )
               => /\ Cardinality(NodesOf(ObjEnt(o))) = 1
                  /\ \A n \in NodesOf(ObjEnt(o)) : C18_ParentOk(o, n)
            /\ o \notin scene.selected_objects => NodesOf(ObjEnt(o)) = {}

\* How often node n occurs in the children list of node p.
C19_Occurrences(p, n) ==
    Cardinality({k \in 1..Len(i3d.nodes[p].children) : i3d.nodes[p].children[k] = n})

\* C19: at every point of the construction each node with a parent occurs
\* exactly once in its parent's children list and in no other node's list.
C19_ParentChildrenConsistent ==
    \A n \in Nodes :
        i3d.nodes[n].parent # None =>
            /\ C19_Occurrences(i3d.nodes[n].parent, n) = 1
            /\ \A q \in Nodes \ {i3d.nodes[n].parent} : C19_Occurrences(q, n) = 0

\* The graph holds a collapsed armature registered under its parent, a bone the
\* armature's finalization moved under that parent, and a bone the deferred
\* pass moved under its child-of target.
C19_Witness ==
    /\ pc = "write"
    /\ \E a \in Nodes, b1 \in Nodes, b2 \in Nodes :
          /\ i3d.nodes[a].cls = "SkinnedMeshRootNode"
          /\ i3d.nodes[a].is_collapsed
          /\ i3d.nodes[a].parent # None
          /\ i3d.nodes[b1].root_node = a
          /\ i3d.nodes[b1].cls = "SkinnedMeshBoneNode"
          /\ ~i3d.nodes[b1].is_child_of
          /\ i3d.nodes[b1].parent = i3d.nodes[a].parent
          /\ i3d.nodes[b2].root_node = a
          /\ i3d.nodes[b2].cls = "SkinnedMeshBoneNode"
          /\ i3d.nodes[b2].deferred_target # None
          /\ i3d.nodes[b2].parent \in NodesOf(ObjEnt(i3d.nodes[b2].deferred_target))

\* A queued constraint has been processed: its bone hangs under the target's
\* node, or the warning about the target was logged.
C20_Processed(c) ==
    \/ i3d.nodes[c[1]].parent \in NodesOf(ObjEnt(c[2]))
    \/ [w |-> "deferred_target_not_processed", ent |-> i3d.nodes[c[1]].ent] \in i3d.warnings

C20_Queue == {i3d.deferred_constraints[k] : k \in 1..Len(i3d.deferred_constraints)}

C20_AllShapesPopulated == output.shapes_populated = i3d.deferred_shapes_to_populate

C20_AnimationBegun == anim.started \/ output.animation_sets.exists

C20_AnimationOver ==
    /\ ~anim.running
    /\ i3d.anim_links # <<>> =>
          (anim.started /\ PendingTracks = {}
           /\ output.animation_sets.count = Len(i3d.anim_links))

\* What a step may do, given the phase it starts in: nodes are created and
\* calls are pending only during the traversal, and the traversal is left for
\* the deferred constraints only when no call is pending.
C20_StepInPhase ==
    /\ (pc = "traverse" /\ pc' = "shapes") => stack = <<>>
    /\ pc \notin {"start", "traverse"} => (i3d'.nodes = i3d.nodes /\ stack' = <<>>)
    /\ pc # "traverse" => i3d'.deferred_constraints = i3d.deferred_constraints
    /\ pc # "shapes" => output'.shapes_populated = output.shapes_populated
    /\ pc # "anim" => (anim' = anim /\ frame_current' = frame_current)
    /\ pc # "write" => output'.file_written = output.file_written
    /\ pc # "binarize" => output'.binarized = output.binarized

\* C20: the phases of one export run in a fixed order: the traversal has
\* returned before a deferred constraint is processed, every deferred
\* constraint is processed before a deferred shape is populated, every deferred
\* shape is populated before the animation is created or a frame is sampled,
\* the file is written after the animation export, and the binarization runs
\* after the file was written.
C20_PhaseOrder ==
    /\ [][C20_StepInPhase]_vars
    /\ []( (\E c \in C20_Queue : C20_Processed(c)) => pc \notin {"start", "traverse"} )
    /\ []( output.shapes_populated # <<>> =>
              (pc \notin {"start", "traverse", "shapes"}
               /\ \A c \in C20_Queue : C20_Processed(c)) )
    /\ []( C20_AnimationBegun =>
              (pc \notin {"start", "traverse", "shapes"}
               /\ C20_AllShapesPopulated
               /\ \A c \in C20_Queue : C20_Processed(c)) )
    /\ []( output.file_written =>
              (pc \in {"binarize", "epilogue", "done"} /\ C20_AnimationOver
               /\ C20_AllShapesPopulated) )
    /\ []( output.binarized => (output.binarize_requested /\ output.file_written) )

\* An export in which every phase had work has returned: a deferred bone was
\* moved under its target, a deferred shape was populated, keyframes were
\* sampled, the file was written and binarized.
C20_Witness ==
    /\ pc = "done"
    /\ \E c \in C20_Queue : i3d.nodes[c[1]].parent \in NodesOf(ObjEnt(c[2]))
    /\ output.shapes_populated # <<>>
    /\ anim.started
    /\ \E t \in 1..Len(anim.tracks) : Len(anim.tracks[t].keyframes) > 1
    /\ output.file_written
    /\ output.binarized

\* The Clip of the action is finished.
C21_ClipDone == output.clip.count # Detached

\* The nodes of armature objects that are linked to the action and have a
\* channelbag.
C21_AnimatedArmatures ==
    {n \in Nodes : /\ i3d.nodes[n].cls = "SkinnedMeshRootNode"
                   /\ \E l \in 1..Len(i3d.anim_links) : n \in SeqToSet(i3d.anim_links[l].pairs)
                   /\ Channelbag(i3d.nodes[n].ent.i) # {}}

\* C21: in a finished Clip no Keyframes element carries the node id of an
\* armature object; every processed bone of an animated armature that has key
\* frames of its own has exactly one Keyframes element; every Keyframes
\* element has at least one Keyframe; the Clip's count is the number of its
\* Keyframes elements.
C21_ClipHoldsNonEmptyTracks ==
    C21_ClipDone =>
        LET ks == output.clip.keyframes
        IN /\ \A k \in 1..Len(ks) :
                 /\ ~( i3d.nodes[ks[k].node].ent.k = "OBJ"
                       /\ scene.otype[i3d.nodes[ks[k].node].ent.i] = "ARMATURE" )
                 /\ Len(ks[k].keyframes) >= 1
           /\ \A a \in C21_AnimatedArmatures : \A b \in Bone :
                 ( /\ BoneEnt(b) \in DOMAIN i3d.processed_objects
                   /\ \E fc \in Channelbag(i3d.nodes[a].ent.i) : fc.bone = b /\ fc.keys # {} )
                 => Cardinality({k \in 1..Len(ks) :
                                    ks[k].node = i3d.processed_objects[BoneEnt(b)]}) = 1
           /\ output.clip.count = Len(ks)

\* The Clip of an animated armature is finished: bone 1 has its track in it,
\* the track of bone 2, which has no key frame, was built and left out.
C21_Witness ==
    /\ C21_ClipDone
    /\ C21_AnimatedArmatures # {}
    /\ output.clip.count = 1
    /\ Len(anim.tracks) = 2
    /\ \E t \in 1..2 : anim.tracks[t].frames = <<>>
    /\ i3d.nodes[output.clip.keyframes[1].node].ent = BoneEnt(1)

\* C22: for every bone, whatever its configuration, the matrix the animation
\* samples (Keyframes._bone_anim_matrix) is, with the pose at rest, the matrix
\* _transform_for_conversion computes for the bone as it stands in the graph.
C22_AnimMirrorsRest ==
    (pc = "anim" /\ scene.pose_matrix = scene.matrix_local) =>
        \A t \in 1..Len(anim.tracks) : \A k \in 1..Len(anim.tracks[t].keyframes) :
            i3d.nodes[anim.tracks[t].node].cls = "SkinnedMeshBoneNode" =>
                anim.tracks[t].keyframes[k].matrix
                    = _transform_for_conversion(i3d, anim.tracks[t].node)

\* The second export is about to write its file.
C23_SecondExportDone == pc = "write" /\ output.previous # <<>>

\* C23: when the file is about to be written, the case that wrote each bone's
\* transform is the first of the four cases, in priority order, that applies to
\* the bone as it stands in the graph; and a second export of the scene that
\* differs from the first only in the order in which the armature and the
\* child-of target are met gives each constrained bone the parent, the case
\* and the transform the first export gave it.
C23_CaseFromFinalConfiguration ==
    /\ pc = "write" =>
          \A n \in Nodes : i3d.nodes[n].cls = "SkinnedMeshBoneNode" =>
              i3d.nodes[n].transform_case = TransformCase(i3d, n)
    /\ C23_SecondExportDone =>
          \A b \in DOMAIN output.previous :
              scene.child_of[b] # None => WrittenBones(i3d)[b] = output.previous[b]

====
